---- MODULE Spec2Model ----
(***************************************************************************)
(* A model of the small virtual-DOM library of the post "Virtual DOM":     *)
(* the Node model (h, text), the Differ (diffOne, diffList), the Patcher   *)
(* (apply, create, modify, setListener, setProperty, eventName, listener)  *)
(* and the Runtime Loop (init, enqueue, draw, updateState).                *)
(*                                                                         *)
(* JavaScript values are modelled as strings.  Property names, tags, text  *)
(* contents, attribute values and handler names are TLA+ strings; the      *)
(* JavaScript values undefined, null and true are the reserved strings     *)
(* UNDEF, NULL and JsTrue.  Event types (the result of eventName) are      *)
(* sequences of one-character strings, because eventName inspects and      *)
(* rewrites the characters of a property name.                             *)
(***************************************************************************)
EXTENDS Integers, Sequences, FiniteSets, TLC

VARIABLES
    \* ---- Runtime Loop: the closure variables of init ----
    pc,         \* "start" before init is called, "running" while the loop is alive,
                \* "crashed" once update or view has thrown out of a tick
    state,      \* let state   (client application state)
    nodes,      \* let nodes   (virtual DOM nodes, the baseline of the next diff)
    queue,      \* let queue   (msg queue); each entry is [id, msg]
    root,       \* the live root element handed to init
    scheduled,  \* number of pending requestAnimationFrame(updateState) callbacks
    \* ---- observation of the Runtime Loop (history variables) ----
    nextId,     \* number of enqueue calls made so far; ids the messages
    processed,  \* ids of the messages passed to update so far, in call order
    last,       \* what the last handler that ran did (see Quiet)
    \* ---- Differ / Patcher exercised on their own ----
    va,         \* the old Node tree a
    vb,         \* the new Node tree b
    el,         \* the live container holding the tree under test
    phase,      \* "off" | "fresh" | "created" | "patched" | "lists" | "diffed"
                \* | "live"
    detached,   \* the live nodes the last apply took out of the tree
    steps,      \* number of patches applied to the tree under test
    runs,       \* per event type, how many times a handler was set on the
                \* tree under test where there was none (set), and how many
                \* times a handler took the place of another (changed)
    \* ---- Differ exercised on its own ----
    olds,       \* the old children
    news,       \* the new children
    patches,    \* the patches the differ computed for them
    \* ---- two applications on one page ----
    apps,       \* per application, the closure variables of its init call
    \* ---- property names classified on their own ----
    names,      \* the property names of an element, in iteration order
    classified  \* for the names visited so far, the path each one took

vars == <<pc, state, nodes, queue, root, scheduled, nextId, processed, last,
          va, vb, el, phase, detached, steps, runs,
          olds, news, patches, apps, names, classified>>

runtimeVars == <<pc, state, nodes, queue, root, scheduled, nextId, processed, last>>
patchVars == <<va, vb, el, phase, detached, steps, runs,
          olds, news, patches, apps, names, classified>>
diffVars == <<olds, news, patches, apps, names, classified>>

----------------------------------------------------------------------------
(* JavaScript values *)

UNDEF == "<undefined>"
NULL == <<"<null>">>
JsTrue == "<true>"

Max2(x, y) == IF x >= y THEN x ELSE y

\* String(value), the conversion setAttribute applies to its value argument.
JsString(value) ==
    IF value = JsTrue THEN "true"
    ELSE IF value = UNDEF THEN "undefined"
    ELSE value

\* The characters of the property names the model uses.
Chars(str) ==
    CASE str = "onClick" -> <<"o", "n", "C", "l", "i", "c", "k">>
      [] str = "onclick" -> <<"o", "n", "c", "l", "i", "c", "k">>
      [] str = "onInput" -> <<"o", "n", "I", "n", "p", "u", "t">>
      [] str = "class"   -> <<"c", "l", "a", "s", "s">>
      [] str = "checked" -> <<"c", "h", "e", "c", "k", "e", "d">>
      [] str = "value"   -> <<"v", "a", "l", "u", "e">>
      [] str = "id"      -> <<"i", "d">>
      [] str = "onMouseOver" ->
            <<"o", "n", "M", "o", "u", "s", "e", "O", "v", "e", "r">>
      [] str = "on"      -> <<"o", "n">>
      [] str = "once"    -> <<"o", "n", "c", "e">>
      [] str = "On"      -> <<"O", "n">>
      [] str = "ONCLICK" -> <<"O", "N", "C", "L", "I", "C", "K">>
      [] str = "neon"    -> <<"n", "e", "o", "n">>
      [] str = "o"       -> <<"o">>
      [] str = ""        -> <<>>

\* One character of String.prototype.toLowerCase.
LowerChar(c) ==
    CASE c = "C" -> "c"
      [] c = "I" -> "i"
      [] c = "K" -> "k"
      [] c = "L" -> "l"
      [] c = "M" -> "m"
      [] c = "N" -> "n"
      [] c = "O" -> "o"
      [] OTHER -> c

ToLowerCase(cs) == [i \in 1..Len(cs) |-> LowerChar(cs[i])]

\* str.indexOf("on") == 0
StartsWithOn(cs) == Len(cs) >= 2 /\ cs[1] = "o" /\ cs[2] = "n"

\* A variant of eventName that keeps the case of the name.
eventNameKeepCase(str) ==
    IF StartsWithOn(Chars(str))
    THEN SubSeq(Chars(str), 3, Len(Chars(str)))
    ELSE NULL

\* The name of the event to listen to, or null if the property is not an
\* event listener.
eventName(str) ==
    IF StartsWithOn(Chars(str))
    THEN ToLowerCase(SubSeq(Chars(str), 3, Len(Chars(str))))
    ELSE NULL

click == <<"c", "l", "i", "c", "k">>
input == <<"i", "n", "p", "u", "t">>
EventTypes == {click, input}

----------------------------------------------------------------------------
(* Node model *)

h(tag, properties, children) ==
    [tag |-> tag, properties |-> properties, children |-> children]

text(content) == [text |-> content]

\* vnode.text and vnode.tag; reading a missing field gives undefined.
TextOf(vnode) == IF "text" \in DOMAIN vnode THEN vnode.text ELSE UNDEF
TagOf(vnode) == IF "tag" \in DOMAIN vnode THEN vnode.tag ELSE UNDEF

\* properties[prop]; reading a missing key gives undefined.
Prop(properties, prop) ==
    IF prop \in DOMAIN properties THEN properties[prop] ELSE UNDEF

----------------------------------------------------------------------------
(* Differ *)

RECURSIVE diffOne(_, _), diffList(_, _)

\* Variants of diffOne.
\* (1) takes note of every property of the new node, changed or not;
diffOneSetEvery(l, r) ==
    IF TextOf(l) # UNDEF
    THEN IF TextOf(l) # TextOf(r) THEN [replace |-> r] ELSE [noop |-> TRUE]
    ELSE IF TagOf(l) # TagOf(r)
    THEN [replace |-> r]
    ELSE [modify |->
            [remove |-> {prop \in DOMAIN l.properties :
                            Prop(r.properties, prop) = UNDEF},
             set |-> r.properties,
             children |-> diffList(l.children, r.children)]]

\* (2) replaces an element by a text node, and otherwise modifies it
\* whatever the tag of the new element;
diffOneKeepTag(l, r) ==
    IF TextOf(l) # UNDEF
    THEN IF TextOf(l) # TextOf(r) THEN [replace |-> r] ELSE [noop |-> TRUE]
    ELSE IF TextOf(r) # UNDEF
    THEN [replace |-> r]
    ELSE [modify |->
            [remove |-> {prop \in DOMAIN l.properties :
                            Prop(r.properties, prop) = UNDEF},
             set |-> [prop \in {p \in DOMAIN r.properties :
                                   r.properties[p] # Prop(l.properties, p)}
                         |-> r.properties[prop]],
             children |-> diffList(l.children, r.children)]]

\* (3) also removes the properties whose value changed;
diffOneRemoveChanged(l, r) ==
    IF TextOf(l) # UNDEF
    THEN IF TextOf(l) # TextOf(r) THEN [replace |-> r] ELSE [noop |-> TRUE]
    ELSE IF TagOf(l) # TagOf(r)
    THEN [replace |-> r]
    ELSE [modify |->
            [remove |-> {prop \in DOMAIN l.properties :
                            Prop(r.properties, prop) # l.properties[prop]},
             set |-> [prop \in {p \in DOMAIN r.properties :
                                   r.properties[p] # Prop(l.properties, p)}
                         |-> r.properties[prop]],
             children |-> diffList(l.children, r.children)]]

\* (4) replaces a changed text node by the old node instead of the new one.
diffOneReplaceOld(l, r) ==
    IF TextOf(l) # UNDEF
    THEN IF TextOf(l) # TextOf(r) THEN [replace |-> l] ELSE [noop |-> TRUE]
    ELSE IF TagOf(l) # TagOf(r)
    THEN [replace |-> r]
    ELSE [modify |->
            [remove |-> {prop \in DOMAIN l.properties :
                            Prop(r.properties, prop) = UNDEF},
             set |-> [prop \in {p \in DOMAIN r.properties :
                                   r.properties[p] # Prop(l.properties, p)}
                         |-> r.properties[prop]],
             children |-> diffList(l.children, r.children)]]

diffOne(l, r) ==
    IF TextOf(l) # UNDEF
    THEN IF TextOf(l) # TextOf(r) THEN [replace |-> r] ELSE [noop |-> TRUE]
    ELSE IF TagOf(l) # TagOf(r)
    THEN [replace |-> r]
    ELSE [modify |->
            [remove |-> {prop \in DOMAIN l.properties :
                            Prop(r.properties, prop) = UNDEF},
             set |-> [prop \in {p \in DOMAIN r.properties :
                                   r.properties[p] # Prop(l.properties, p)}
                         |-> r.properties[prop]],
             children |-> diffList(l.children, r.children)]]

\* Variants of diffList.
\* (1) takes the old list for the new one when one of them has no child at
\* an index;
diffListSwapped(ls, rs) ==
    [i \in 1..Max2(Len(ls), Len(rs)) |->
        IF i > Len(rs) THEN [create |-> ls[i]]
        ELSE IF i > Len(ls) THEN [remove |-> TRUE]
        ELSE diffOne(ls[i], rs[i])]

\* (2) leaves alone the old children that have no new child;
diffListKeepExtra(ls, rs) ==
    [i \in 1..Max2(Len(ls), Len(rs)) |->
        IF i > Len(ls) THEN [create |-> rs[i]]
        ELSE IF i > Len(rs) THEN [noop |-> TRUE]
        ELSE diffOne(ls[i], rs[i])]

\* (3) gives a result of the size of the shorter list.
diffListShortest(ls, rs) ==
    [i \in 1..(IF Len(ls) <= Len(rs) THEN Len(ls) ELSE Len(rs)) |->
        diffOne(ls[i], rs[i])]

diffList(ls, rs) ==
    [i \in 1..Max2(Len(ls), Len(rs)) |->
        IF i > Len(ls) THEN [create |-> rs[i]]
        ELSE IF i > Len(rs) THEN [remove |-> TRUE]
        ELSE diffOne(ls[i], rs[i])]

\* Object.keys(diff)[0]
ActionOf(diff) == CHOOSE k \in DOMAIN diff : TRUE

\* The optimisation the library adds to diffOne: when there are no property
\* changes and all children modifications are noops, the element's diff is a
\* noop too.  diffOne of the library returns the collapsed patch, so the
\* children it looks at are collapsed already.
\* A variant that looks at the element's own diff only, with the children
\* as diffList left them.
collapseOuter(diff) ==
    IF ActionOf(diff) # "modify" THEN diff
    ELSE IF /\ \A i \in DOMAIN diff.modify.children :
                  ActionOf(diff.modify.children[i]) = "noop"
            /\ diff.modify.remove = {}
            /\ DOMAIN diff.modify.set = {}
         THEN [noop |-> TRUE]
         ELSE diff

RECURSIVE collapse(_)
collapse(diff) ==
    IF ActionOf(diff) # "modify" THEN diff
    ELSE LET children == [i \in DOMAIN diff.modify.children |->
                             collapse(diff.modify.children[i])]
             noChildrenChange == \A i \in DOMAIN children :
                                    ActionOf(children[i]) = "noop"
             noPropertyChange == /\ diff.modify.remove = {}
                                 /\ DOMAIN diff.modify.set = {}
         IN  IF noChildrenChange /\ noPropertyChange
             THEN [noop |-> TRUE]
             ELSE [modify |-> [diff.modify EXCEPT !.children = children]]

\* The differ of the library: diffOne and diffList with the optimisation.
diffNode(l, r) == collapse(diffOne(l, r))
diffChildren(ls, rs) ==
    [i \in DOMAIN diffList(ls, rs) |-> collapse(diffList(ls, rs)[i])]

----------------------------------------------------------------------------
(* Patcher: live nodes *)

\* The names set by direct property assignment instead of setAttribute.
props ==
    {"autoplay", "checked", "contentEditable", "controls", "default", "hidden",
     "loop", "selected", "spellcheck", "value", "id", "title", "accessKey",
     "dir", "dropzone", "lang", "src", "alt", "preload", "poster", "kind",
     "label", "srclang", "sandbox", "srcdoc", "type", "accept", "placeholder",
     "acceptCharset", "action", "autocomplete", "enctype", "method", "name",
     "pattern", "htmlFor", "max", "min", "step", "wrap", "useMap", "shape",
     "coords", "align", "cite", "href", "target", "download", "hreflang",
     "ping", "start", "headers", "scope", "span"}

\* A function with one more (or one overwritten) entry, and with one entry less.
Put(f, k, v) == [x \in (DOMAIN f) \cup {k} |-> IF x = k THEN v ELSE f[x]]
Drop(f, k) == [x \in (DOMAIN f) \ {k} |-> f[x]]

\* document.createTextNode(data)
createTextNode(data) == [nodeType |-> "text", data |-> data]

\* document.createElement(tag) followed by el._ui = { listeners : {} }.
\* attributes: what setAttribute wrote; fields: what el[prop] = value wrote;
\* registered: the event types for which `listener` is registered on the
\* element at the platform level (registering the same function twice for
\* one type leaves one registration); addEventListenerCalls: how many times
\* addEventListener was called on the element for each type, a record of
\* what was done to the element and no part of what it is.
createElement(tag) ==
    [nodeType |-> "element", tagName |-> tag,
     attributes |-> <<>>, fields |-> <<>>,
     registered |-> {},
     addEventListenerCalls |-> [e \in EventTypes |-> 0],
     ui |-> [listeners |-> [e \in EventTypes |-> UNDEF]],
     childNodes |-> <<>>]

\* Variants of setListener.
\* (1) stores the handler only where it registers the listener;
setListenerOnce(e, event, handle) ==
    IF e.ui.listeners[event] = UNDEF
    THEN [e EXCEPT !.registered = @ \cup {event},
                   !.addEventListenerCalls[event] = @ + 1,
                   !.ui.listeners[event] = handle]
    ELSE e

\* (2) calls addEventListener every time.
setListenerAlways(e, event, handle) ==
    [e EXCEPT !.registered = @ \cup {event},
              !.addEventListenerCalls[event] = @ + 1,
              !.ui.listeners[event] = handle]

setListener(e, event, handle) ==
    [e EXCEPT !.registered = IF e.ui.listeners[event] = UNDEF
                             THEN @ \cup {event} ELSE @,
              !.addEventListenerCalls[event] =
                    IF e.ui.listeners[event] = UNDEF THEN @ + 1 ELSE @,
              !.ui.listeners[event] = handle]

\* A variant of setProperty that sets every property as an attribute.
setPropertyAttribute(prop, value, e) ==
    [e EXCEPT !.attributes = Put(@, prop, JsString(value))]

setProperty(prop, value, e) ==
    IF prop \in props
    THEN [e EXCEPT !.fields = Put(@, prop, value)]
    ELSE [e EXCEPT !.attributes = Put(@, prop, JsString(value))]

\* One iteration of the loops "for (const prop in ...)" of create and modify.
SetOne(e, prop, value) ==
    IF eventName(prop) # NULL
    THEN setListener(e, eventName(prop), value)
    ELSE setProperty(prop, value, e)

\* One iteration of the loop "for (const prop of diff.remove)" of modify.
RemoveOne(e, prop) ==
    IF eventName(prop) = NULL
    THEN [e EXCEPT !.attributes = Drop(@, prop)]
    ELSE [e EXCEPT !.ui.listeners[eventName(prop)] = UNDEF,
                   !.registered = @ \ {eventName(prop)}]

RECURSIVE SetAll(_, _, _), RemoveAll(_, _)

\* for (const prop in properties) over the keys not yet visited
SetAll(e, properties, keys) ==
    IF keys = {} THEN e
    ELSE LET prop == CHOOSE k \in keys : TRUE
         IN SetAll(SetOne(e, prop, properties[prop]), properties, keys \ {prop})

\* for (const prop of remove)
RemoveAll(e, remove) ==
    IF remove = {} THEN e
    ELSE LET prop == CHOOSE k \in remove : TRUE
         IN RemoveAll(RemoveOne(e, prop), remove \ {prop})

\* An empty element: the root handed to init, the parent apply works on.
Container == createElement("div")

RECURSIVE create(_)

create(vnode) ==
    IF TextOf(vnode) # UNDEF
    THEN createTextNode(vnode.text)
    ELSE [SetAll(createElement(vnode.tag), vnode.properties,
                 DOMAIN vnode.properties)
            EXCEPT !.childNodes =
                     [i \in 1..Len(vnode.children) |-> create(vnode.children[i])]]

RECURSIVE Flatten(_)
Flatten(ss) == IF ss = <<>> THEN <<>> ELSE Head(ss) \o Flatten(Tail(ss))

RECURSIVE apply(_, _), modify(_, _)

\* A variant of apply that takes a replaced child out and appends the new
\* node to the parent.
applyAppendReplace(e, childrenDiff) ==
    LET children == e.childNodes
        diffAt(i) == IF i <= Len(childrenDiff) THEN childrenDiff[i]
                     ELSE [noop |-> TRUE]
        slot(i) ==
            LET diff == diffAt(i)
                action == ActionOf(diff)
            IN  CASE action = "remove"  -> <<>>
                  [] action = "modify"  -> <<modify(children[i], diff.modify)>>
                  [] action = "replace" -> <<>>
                  [] OTHER              -> <<children[i]>>
        created(i) ==
            CASE ActionOf(childrenDiff[i]) = "create" ->
                    <<create(childrenDiff[i].create)>>
              [] ActionOf(childrenDiff[i]) = "replace" /\ i <= Len(children) ->
                    <<create(childrenDiff[i].replace)>>
              [] OTHER -> <<>>
    IN  [e EXCEPT !.childNodes =
            Flatten([i \in 1..Len(children) |-> slot(i)])
            \o Flatten([i \in 1..Len(childrenDiff) |-> created(i)])]

\* `children` is the snapshot Array.from(el.childNodes); every patch acts on
\* children[i], and a create appends to the parent.
apply(e, childrenDiff) ==
    LET children == e.childNodes
        diffAt(i) == IF i <= Len(childrenDiff) THEN childrenDiff[i]
                     ELSE [noop |-> TRUE]
        slot(i) ==
            LET diff == diffAt(i)
                action == ActionOf(diff)
            IN  CASE action = "remove"  -> <<>>
                  [] action = "modify"  -> <<modify(children[i], diff.modify)>>
                  [] action = "replace" -> <<create(diff.replace)>>
                  [] OTHER              -> <<children[i]>>
        created(i) ==
            IF ActionOf(childrenDiff[i]) = "create"
            THEN <<create(childrenDiff[i].create)>> ELSE <<>>
    IN  [e EXCEPT !.childNodes =
            Flatten([i \in 1..Len(children) |-> slot(i)])
            \o Flatten([i \in 1..Len(childrenDiff) |-> created(i)])]

\* A variant of modify that sets properties before it removes any.
modifySetFirst(e, diff) ==
    LET set == SetAll(e, diff.set, DOMAIN diff.set)
        removed == RemoveAll(set, diff.remove)
    IN  apply(removed, diff.children)

modify(e, diff) ==
    LET removed == RemoveAll(e, diff.remove)
        set == SetAll(removed, diff.set, DOMAIN diff.set)
    IN  apply(set, diff.children)

\* The live nodes apply(e, childrenDiff) takes out of the tree, as it leaves
\* them: children[i].remove() and children[i].replaceWith(child) detach
\* children[i] and do nothing else to it; a modified child detaches what the
\* apply on its own children detaches.
RECURSIVE Detached(_, _)
Detached(e, childrenDiff) ==
    LET children == e.childNodes
        out(i) ==
            LET diff == childrenDiff[i]
                action == ActionOf(diff)
            IN  CASE action = "remove"  -> <<children[i]>>
                  [] action = "replace" -> <<children[i]>>
                  [] action = "modify"  ->
                        Detached(SetAll(RemoveAll(children[i], diff.modify.remove),
                                        diff.modify.set, DOMAIN diff.modify.set),
                                 diff.modify.children)
                  [] OTHER              -> <<>>
    IN  Flatten([i \in 1..Len(childrenDiff) |-> out(i)])

----------------------------------------------------------------------------
(* Runtime Loop: the application handed to init *)

\* The user's update, view and event handlers are arguments of init; the
\* model runs the loop on one application whose update is not commutative,
\* can enqueue from within update ("spawn"), can throw ("boom") and can
\* reach a state on which view throws ("bad"); one of its views gives a
\* handler whose value is undefined.
InitialState == 0

Msgs == {"inc", "dbl", "spawn", "boom", "bad"}

UpdateThrows(s, msg) == msg = "boom"

update(s, msg) ==
    CASE msg = "inc"  -> (s + 1) % 4
      [] msg = "dbl"  -> (2 * s) % 4
      [] msg = "bad"  -> 4
      [] OTHER        -> s

\* The messages update passes to enqueue while it handles msg.
UpdateEnqueues(s, msg) == IF msg = "spawn" THEN <<"inc">> ELSE <<>>

Views ==
    [s \in 0..3 |->
        CASE s = 0 -> <<h("button", [onClick |-> "f"], <<text("A")>>)>>
          [] s = 1 -> <<h("button", [onClick |-> "g", class |-> "x"],
                          <<text("B")>>),
                        text("A")>>
          [] s = 2 -> <<h("input", [checked |-> JsTrue, onInput |-> "f",
                                    onClick |-> UNDEF], <<>>),
                        text("A")>>
          [] s = 3 -> <<h("input", [class |-> "y", onInput |-> "k"], <<>>)>>]

ViewThrows(s) == s \notin DOMAIN Views
view(s) == Views[s]

\* The function a handler value is a closure of: f2 is the function f
\* evaluated once more, the same code under another reference.
FunctionOf(handler) == IF handler = "f2" THEN "f" ELSE handler

\* What each user handler returns: a message, or undefined.
HandlerResult(handler) ==
    CASE FunctionOf(handler) = "f" -> "inc"
      [] handler = "k" -> ""
      [] OTHER         -> UNDEF

----------------------------------------------------------------------------
(* Runtime Loop: init and its inner functions.  Each function is an        *)
(* operator on the record c of the closure variables it reads and writes;  *)
(* c.threw says that an exception is propagating, c.last records the calls *)
(* made by the handler that is running.                                    *)

Call(fn, arg) == [fn |-> fn, arg |-> arg]

Quiet(op) ==
    [op |-> op, captured |-> <<>>, calls |-> <<>>, patch |-> <<>>,
     handler |-> UNDEF, threw |-> FALSE]

Note(c, fn, arg) == [c EXCEPT !.last.calls = Append(@, Call(fn, arg))]

Ids(msgs) == [i \in 1..Len(msgs) |-> msgs[i].id]

\* A variant of enqueue that handles the message at once instead of only
\* queueing it.
enqueueSync(c, msg) ==
    [Note(Note(c, "push", c.nextId + 1), "update", c.nextId + 1)
        EXCEPT !.nextId = @ + 1,
               !.processed = Append(@, c.nextId + 1),
               !.state = update(c.state, msg)]

\* A variant of enqueue that also requests an animation frame.
enqueueRequesting(c, msg) ==
    [Note(Note(c, "push", c.nextId + 1), "requestAnimationFrame", 0)
        EXCEPT !.queue = Append(@, [id |-> c.nextId + 1, msg |-> msg]),
               !.nextId = @ + 1,
               !.scheduled = @ + 1]

\* queue.push(msg)
enqueue(c, msg) ==
    [Note(c, "push", c.nextId + 1)
        EXCEPT !.queue = Append(@, [id |-> c.nextId + 1, msg |-> msg]),
               !.nextId = @ + 1]

RECURSIVE EnqueueAll(_, _)
EnqueueAll(c, msgs) ==
    IF msgs = <<>> THEN c
    ELSE EnqueueAll(enqueue(c, Head(msgs)), Tail(msgs))

\* Variants of draw.
\* (1) diffs the new nodes against the baseline, the wrong way round;
drawSwapped(c) ==
    LET viewed == Note(c, "view", 0)
    IN  IF ViewThrows(c.state)
        THEN [viewed EXCEPT !.threw = TRUE]
        ELSE LET newNodes == view(c.state)
                 patch == diffList(newNodes, c.nodes)
             IN  [Note(Note(viewed, "diffList", 0), "apply", 0)
                    EXCEPT !.root = apply(c.root, patch),
                           !.nodes = newNodes,
                           !.last.patch = patch]

\* (2) does not store the new nodes as the baseline.
drawKeepBaseline(c) ==
    LET viewed == Note(c, "view", 0)
    IN  IF ViewThrows(c.state)
        THEN [viewed EXCEPT !.threw = TRUE]
        ELSE LET newNodes == view(c.state)
                 patch == diffList(c.nodes, newNodes)
             IN  [Note(Note(viewed, "diffList", 0), "apply", 0)
                    EXCEPT !.root = apply(c.root, patch),
                           !.last.patch = patch]

\* draws the current state
draw(c) ==
    LET viewed == Note(c, "view", 0)
    IN  IF ViewThrows(c.state)
        THEN [viewed EXCEPT !.threw = TRUE]
        ELSE LET newNodes == view(c.state)
                 patch == diffList(c.nodes, newNodes)
             IN  [Note(Note(viewed, "diffList", 0), "apply", 0)
                    EXCEPT !.root = apply(c.root, patch),
                           !.nodes = newNodes,
                           !.last.patch = patch]

\* A variant of the drain loop that takes the messages last-in first-out.
RECURSIVE DrainReversed(_, _)
DrainReversed(c, msgs) ==
    IF msgs = <<>> THEN c
    ELSE LET msg == msgs[Len(msgs)]
             called == [Note(c, "update", msg.id)
                          EXCEPT !.processed = Append(@, msg.id)]
         IN  IF UpdateThrows(c.state, msg.msg)
             THEN [called EXCEPT !.threw = TRUE]
             ELSE DrainReversed(
                    [EnqueueAll(called, UpdateEnqueues(c.state, msg.msg))
                        EXCEPT !.state = update(c.state, msg.msg)],
                    SubSeq(msgs, 1, Len(msgs) - 1))

\* A variant of the drain loop that stores the state once, after the last
\* message: state = msgs.reduce(update, state).
RECURSIVE DrainFrom(_, _, _)
DrainFrom(c, msgs, before) ==
    IF msgs = <<>> THEN c
    ELSE LET msg == Head(msgs)
             called == [Note(c, "update", msg.id)
                          EXCEPT !.processed = Append(@, msg.id)]
         IN  IF UpdateThrows(c.state, msg.msg)
             THEN [called EXCEPT !.threw = TRUE, !.state = before]
             ELSE DrainFrom([EnqueueAll(called, UpdateEnqueues(c.state, msg.msg))
                                EXCEPT !.state = update(c.state, msg.msg)],
                            Tail(msgs), before)

DrainReduce(c, msgs) == DrainFrom(c, msgs, c.state)

\* for (msg of msgs) { state = update(state, msg); }
RECURSIVE Drain(_, _)
Drain(c, msgs) ==
    IF msgs = <<>> THEN c
    ELSE LET msg == Head(msgs)
             called == [Note(c, "update", msg.id)
                          EXCEPT !.processed = Append(@, msg.id)]
         IN  IF UpdateThrows(c.state, msg.msg)
             THEN [called EXCEPT !.threw = TRUE]
             ELSE Drain([EnqueueAll(called, UpdateEnqueues(c.state, msg.msg))
                            EXCEPT !.state = update(c.state, msg.msg)],
                        Tail(msgs))

\* window.requestAnimationFrame(updateState)
requestAnimationFrame(c) ==
    [Note(c, "requestAnimationFrame", 0) EXCEPT !.scheduled = @ + 1]

\* Variants of updateState.
\* (1) redraws after every message instead of once per tick;
RECURSIVE DrainDrawEach(_, _)
DrainDrawEach(c, msgs) ==
    IF msgs = <<>> \/ c.threw THEN c
    ELSE LET one == Drain(c, <<Head(msgs)>>)
         IN  DrainDrawEach(IF one.threw THEN one ELSE draw(one), Tail(msgs))

updateStateDrawEach(c) ==
    IF Len(c.queue) > 0
    THEN LET msgs == c.queue
             done == DrainDrawEach([c EXCEPT !.queue = <<>>,
                                             !.last.captured = msgs], msgs)
         IN  IF done.threw THEN done ELSE requestAnimationFrame(done)
    ELSE requestAnimationFrame(c)

\* (2) empties the queue after the loop instead of before it;
updateStateClearAfter(c) ==
    IF Len(c.queue) > 0
    THEN LET msgs == c.queue
             drained == Drain([c EXCEPT !.last.captured = msgs], msgs)
             cleared == IF drained.threw THEN drained
                        ELSE [drained EXCEPT !.queue = <<>>]
             drawn == IF cleared.threw THEN cleared ELSE draw(cleared)
         IN  IF drawn.threw THEN drawn ELSE requestAnimationFrame(drawn)
    ELSE requestAnimationFrame(c)

\* (3) loops over the queue itself, so that messages pushed during the loop
\* are visited by it;
RECURSIVE DrainLive(_, _)
DrainLive(c, k) ==
    IF k > Len(c.queue) THEN c
    ELSE LET msg == c.queue[k]
             called == [Note(c, "update", msg.id)
                          EXCEPT !.processed = Append(@, msg.id)]
         IN  IF UpdateThrows(c.state, msg.msg)
             THEN [called EXCEPT !.threw = TRUE]
             ELSE DrainLive([EnqueueAll(called, UpdateEnqueues(c.state, msg.msg))
                                EXCEPT !.state = update(c.state, msg.msg)],
                            k + 1)

updateStateLiveQueue(c) ==
    IF Len(c.queue) > 0
    THEN LET drained == DrainLive([c EXCEPT !.last.captured = c.queue], 1)
             cleared == IF drained.threw THEN drained
                        ELSE [drained EXCEPT !.queue = <<>>]
             drawn == IF cleared.threw THEN cleared ELSE draw(cleared)
         IN  IF drawn.threw THEN drawn ELSE requestAnimationFrame(drawn)
    ELSE requestAnimationFrame(c)

\* (4) draws on every tick, whether or not a message was queued;
updateStateAlwaysDraw(c) ==
    LET msgs == c.queue
        drained == Drain([c EXCEPT !.queue = <<>>,
                                   !.last.captured = msgs], msgs)
        drawn == IF drained.threw THEN drained ELSE draw(drained)
    IN  IF drawn.threw THEN drawn ELSE requestAnimationFrame(drawn)

\* (5) requests the next frame before it does anything else;
updateStateRequestFirst(c) ==
    LET requested == requestAnimationFrame(c)
    IN  IF Len(c.queue) > 0
        THEN LET msgs == c.queue
                 drained == Drain([requested EXCEPT !.queue = <<>>,
                                                    !.last.captured = msgs],
                                  msgs)
             IN  IF drained.threw THEN drained ELSE draw(drained)
        ELSE requested

\* (6) requests the next frame only when it has drawn.
updateStateRescheduleInside(c) ==
    IF Len(c.queue) > 0
    THEN LET msgs == c.queue
             drained == Drain([c EXCEPT !.queue = <<>>,
                                        !.last.captured = msgs], msgs)
             drawn == IF drained.threw THEN drained ELSE draw(drained)
         IN  IF drawn.threw THEN drawn ELSE requestAnimationFrame(drawn)
    ELSE c

\* (7) does not replace the queue with an empty array.
updateStateKeepQueue(c) ==
    IF Len(c.queue) > 0
    THEN LET msgs == c.queue
             drained == Drain([c EXCEPT !.last.captured = msgs], msgs)
             drawn == IF drained.threw THEN drained ELSE draw(drained)
         IN  IF drawn.threw THEN drawn ELSE requestAnimationFrame(drawn)
    ELSE requestAnimationFrame(c)

updateState(c) ==
    IF Len(c.queue) > 0
    THEN LET msgs == c.queue
             drained == Drain([c EXCEPT !.queue = <<>>,
                                        !.last.captured = msgs], msgs)
             drawn == IF drained.threw THEN drained ELSE draw(drained)
         IN  IF drawn.threw THEN drawn ELSE requestAnimationFrame(drawn)
    ELSE requestAnimationFrame(c)

\* A variant of init that draws and does not start the update cycle.
initDrawOnly(c) == draw(c)

\* A variant of init that starts the update cycle without drawing first.
initNoDraw(c) == updateState(c)

\* The body of init after its declarations: draw(); updateState();
init(c) ==
    LET drawn == draw(c)
    IN  IF drawn.threw THEN drawn ELSE updateState(drawn)

\* The values JavaScript takes for false in a condition.
Falsy == {UNDEF, "", "<null>", "<0>", "<false>"}

\* A variant of listener that enqueues the message only if it is truthy.
listenerTruthy(c, i, type) ==
    LET target == c.root.childNodes[i]
        handler == target.ui.listeners[type]
        called == [Note(c, "handler", 0) EXCEPT !.last.handler = handler]
        msg == HandlerResult(handler)
    IN  IF handler = UNDEF
        THEN [called EXCEPT !.threw = TRUE]
        ELSE IF msg \notin Falsy THEN enqueue(called, msg) ELSE called

\* The shared dispatcher, invoked by the platform for an event of the given
\* type whose currentTarget is the i-th child of the root.
listener(c, i, type) ==
    LET target == c.root.childNodes[i]
        handler == target.ui.listeners[type]
        called == [Note(c, "handler", 0) EXCEPT !.last.handler = handler]
        msg == HandlerResult(handler)
    IN  IF handler = UNDEF
        THEN [called EXCEPT !.threw = TRUE]
        ELSE IF msg # UNDEF THEN enqueue(called, msg) ELSE called

----------------------------------------------------------------------------
(* Runtime Loop: the state machine *)

MaxEnqueues == 5

NoRuns == [set |-> [e \in EventTypes |-> 0], changed |-> [e \in EventTypes |-> 0]]

Closure ==
    [state |-> state, nodes |-> nodes, queue |-> queue, root |-> root,
     scheduled |-> scheduled, nextId |-> nextId, processed |-> processed,
     last |-> last, threw |-> FALSE]

Entering(op) == [Closure EXCEPT !.last = Quiet(op)]

Becomes(c) ==
    /\ state' = c.state
    /\ nodes' = c.nodes
    /\ queue' = c.queue
    /\ root' = c.root
    /\ scheduled' = c.scheduled
    /\ nextId' = c.nextId
    /\ processed' = c.processed
    /\ last' = [c.last EXCEPT !.threw = c.threw]

Init ==
    /\ pc = "start"
    /\ state = InitialState
    /\ nodes = <<>>
    /\ queue = <<>>
    /\ root = Container
    /\ scheduled = 0
    /\ nextId = 0
    /\ processed = <<>>
    /\ last = Quiet("none")
    /\ va = text("A") /\ vb = text("A") /\ el = Container /\ phase = "off"
    /\ detached = <<>> /\ steps = 0 /\ runs = NoRuns
    /\ olds = <<>> /\ news = <<>> /\ patches = <<>> /\ apps = <<>>
    /\ names = <<>> /\ classified = <<>>

\* The user calls init(root, initialState, update, view).
Start ==
    /\ pc = "start"
    /\ LET c == init(Entering("init"))
       IN  /\ Becomes(c)
           /\ pc' = IF c.threw THEN "crashed" ELSE "running"
    /\ UNCHANGED patchVars

\* The user calls the enqueue returned by init.
Enqueue(msg) ==
    /\ pc # "start"
    /\ nextId < MaxEnqueues
    /\ Becomes(enqueue(Entering("enqueue"), msg))
    /\ UNCHANGED pc
    /\ UNCHANGED patchVars

\* The platform runs a pending animation-frame callback; none is left
\* pending by a call of updateState that threw.
Tick ==
    /\ pc # "start"
    /\ scheduled > 0
    /\ LET c == updateState([Entering("tick") EXCEPT !.scheduled = @ - 1])
       IN  /\ Becomes(c)
           /\ pc' = IF c.threw THEN "crashed" ELSE "running"
    /\ UNCHANGED patchVars

\* The platform dispatches an event to an element that has the shared
\* listener registered for its type.
Dispatch(i, type) ==
    /\ pc # "start"
    /\ nextId < MaxEnqueues
    /\ i \in DOMAIN root.childNodes
    /\ root.childNodes[i].nodeType = "element"
    /\ type \in root.childNodes[i].registered
    /\ Becomes(listener(Entering("event"), i, type))
    /\ UNCHANGED pc
    /\ UNCHANGED patchVars

Next ==
    \/ Start
    \/ \E msg \in Msgs : Enqueue(msg)
    \/ Tick
    \/ \E i \in 1..2, type \in EventTypes : Dispatch(i, type)

Spec == Init /\ [][Next]_vars

\* A requested animation-frame callback is eventually run: weak fairness of
\* Tick, that is  []<>~ENABLED <<Tick>>_vars \/ []<><<Tick>>_vars,  written
\* with the two action-level facts spelled out.  Tick can take a step that
\* changes the state when a callback is pending and either a message is
\* queued or the record of the last handler is not that of an empty tick;
\* and the steps of Tick are the steps that leave last.op = "tick".
EmptyTick == [Quiet("tick") EXCEPT !.calls = <<Call("requestAnimationFrame", 0)>>]
TickCanRun ==
    /\ pc # "start"
    /\ scheduled > 0
    /\ (queue # <<>> \/ last # EmptyTick)
TickFairness == []<>(~TickCanRun) \/ []<><<last'.op = "tick">>_vars

SpecLive == Spec /\ TickFairness

----------------------------------------------------------------------------
(* Properties of the Runtime Loop *)

\* The calls of fn made by the last handler, and the ids it passed to update.
CallsTo(fn) == SelectSeq(last.calls, LAMBDA x : x.fn = fn)
UpdateArgs == [i \in 1..Len(CallsTo("update")) |-> CallsTo("update")[i].arg]
PushArgs == {CallsTo("push")[i].arg : i \in 1..Len(CallsTo("push"))}
Range(f) == {f[x] : x \in DOMAIN f}

\* update threw during the last handler (view is not reached then).
UpdateThrew == last.threw /\ CallsTo("view") = <<>>

\* The live nodes create makes of a Node sequence.
CreateAll(ns) == [i \in 1..Len(ns) |-> create(ns[i])]

\* A live node as it is now, without the record of the calls made on it.
RECURSIVE AsIs(_)
AsIs(node) ==
    IF node.nodeType = "text" THEN node
    ELSE [node EXCEPT !.addEventListenerCalls = [e \in EventTypes |-> 0],
                      !.childNodes = [i \in DOMAIN node.childNodes |->
                                         AsIs(node.childNodes[i])]]
AsIsAll(ns) == [i \in DOMAIN ns |-> AsIs(ns[i])]

\* The left-to-right fold of update over msgs from s: <<result>>, or <<>>
\* when update throws on the way and the fold has no value.
RECURSIVE FoldUpdate(_, _)
FoldUpdate(s, msgs) ==
    IF msgs = <<>> THEN <<s>>
    ELSE IF UpdateThrows(s, Head(msgs).msg) THEN <<>>
    ELSE FoldUpdate(update(s, Head(msgs).msg), Tail(msgs))

\* C2: live/virtual consistency.  While the loop runs (after init and after
\* every completed tick) the live children of the root are identical to the
\* materialization of the baseline Node sequence.
C2_LiveMatchesBaseline ==
    pc = "running" => AsIsAll(root.childNodes) = AsIsAll(CreateAll(nodes))

C4_EveryMessageProcessed ==
    \A i \in 1..(2 * MaxEnqueues) :
        (nextId >= i) ~> (i \in Range(processed) \/ pc = "crashed")

\* A message enqueued from within update (its id exceeds the number of
\* enqueue calls the environment makes) has been passed to update.
C4_Witness ==
    /\ pc = "running"
    /\ nextId > MaxEnqueues
    /\ nextId \in Range(processed)

C7_EnqueueOnlyAppends ==
    [][last'.op = "enqueue" =>
          /\ \E msg \in Msgs :
                queue' = Append(queue, [id |-> nextId + 1, msg |-> msg])
          /\ state' = state
          /\ nodes' = nodes
          /\ root' = root
          /\ \A i \in DOMAIN last'.calls :
                last'.calls[i].fn \notin {"update", "view", "diffList", "apply"}]_vars

\* enqueue was called while two messages were already pending.
C7_Witness ==
    /\ last.op = "enqueue"
    /\ pc = "running"
    /\ Len(queue) = 3

\* C8: a tick that finds the queue empty calls neither update nor view,
\* computes no diff and applies no patch; state, baseline and live tree are
\* unchanged.
C8_EmptyTickSkips ==
    [][(last'.op = "tick" /\ queue = <<>>) =>
          /\ last'.calls = <<Call("requestAnimationFrame", 0)>>
          /\ last'.patch = <<>>
          /\ state' = state
          /\ nodes' = nodes
          /\ root' = root
          /\ queue' = <<>>]_vars

\* A tick found the queue empty after an earlier tick had rendered.
C8_Witness ==
    /\ last.op = "tick"
    /\ last.captured = <<>>
    /\ processed # <<>>

C10_Stated ==
    last.op = "init" =>
        /\ Len(CallsTo("view")) = 1
        /\ CallsTo("diffList") = <<>>
        /\ root.childNodes = CreateAll(view(InitialState))
        /\ processed = <<>>

\* C10 amended: init calls view once, on the initial state, and draws the
\* result through the same path as every tick: one diffList of the empty
\* baseline against it, which yields a create patch for each node, and one
\* apply; when init returns the live children of the root are the
\* materialization of view(initialState), which is the baseline, and no
\* message has been handled.
C10_InitialMount ==
    last.op = "init" =>
        /\ Len(CallsTo("view")) = 1
        /\ Len(CallsTo("diffList")) = 1
        /\ Len(CallsTo("apply")) = 1
        /\ CallsTo("update") = <<>>
        /\ Len(last.patch) = Len(view(InitialState))
        /\ \A i \in DOMAIN last.patch : ActionOf(last.patch[i]) = "create"
        /\ root.childNodes = CreateAll(view(InitialState))
        /\ nodes = view(InitialState)
        /\ state = InitialState
        /\ processed = <<>>

\* init has returned and the root holds the initial view.
C10_Witness ==
    /\ last.op = "init"
    /\ pc = "running"
    /\ root.childNodes # <<>>

\* C16: event-handler return convention.  When an event is dispatched to a
\* live element whose side-table holds a handler for its type, that handler
\* is called once; a result other than undefined (the empty string
\* included) is appended once to the queue, and undefined leaves the queue
\* unchanged.  Nothing else changes.
C16_ReturnConvention ==
    [][(last'.op = "event" /\ last'.handler # UNDEF) =>
          /\ \E i \in DOMAIN root.childNodes, type \in EventTypes :
                /\ root.childNodes[i].nodeType = "element"
                /\ type \in root.childNodes[i].registered
                /\ last'.handler = root.childNodes[i].ui.listeners[type]
          /\ Len(SelectSeq(last'.calls, LAMBDA x : x.fn = "handler")) = 1
          /\ ~last'.threw
          /\ IF HandlerResult(last'.handler) # UNDEF
             THEN queue' = Append(queue, [id |-> nextId + 1,
                                          msg |-> HandlerResult(last'.handler)])
             ELSE queue' = queue
          /\ state' = state
          /\ nodes' = nodes
          /\ root' = root]_vars

\* The handler k returned the empty string, which is now the last message
\* of the queue.
C16_Witness ==
    /\ last.op = "event"
    /\ last.handler = "k"
    /\ queue # <<>>
    /\ queue[Len(queue)].msg = ""
    /\ queue[Len(queue)].id = nextId

\* C17: unregistered event tolerated.  When the dispatcher is invoked for an
\* event type whose entry in the element's side-table is undefined, nothing
\* is thrown, no message is enqueued and nothing changes.
C17_NoHandlerIsNoop ==
    [][(last'.op = "event" /\ last'.handler = UNDEF) =>
          /\ ~last'.threw
          /\ queue' = queue
          /\ state' = state
          /\ nodes' = nodes
          /\ root' = root]_vars

\* C18: update/view failure is not recovered.  A call of updateState (or the
\* draw of init) in which update or view throws lets the exception out and
\* requests no animation frame; from then on no callback is pending, so no
\* tick runs: no message is passed to update, and state, baseline and live
\* tree stay as they are.
C18_NotRecovered ==
    [][/\ (last'.op \in {"init", "tick"} /\ last'.threw) =>
             /\ pc' = "crashed"
             /\ scheduled' = 0
             /\ \A i \in DOMAIN last'.calls :
                   last'.calls[i].fn # "requestAnimationFrame"
       /\ pc = "crashed" =>
             /\ pc' = "crashed"
             /\ last'.op \notin {"init", "tick"}
             /\ scheduled' = 0
             /\ processed' = processed
             /\ state' = state
             /\ nodes' = nodes
             /\ root' = root]_vars

\* After a tick failed, a message was enqueued and stays in the queue.
C18_Witness ==
    /\ pc = "crashed"
    /\ last.op = "enqueue"
    /\ scheduled = 0
    /\ queue # <<>>
    /\ queue[Len(queue)].id = nextId

----------------------------------------------------------------------------
(* The Differ and the Patcher on their own: a live tree is materialized    *)
(* from a Node tree a and then patched with the diff of a against b.       *)

MaxChildren == 2

\* All sequences over S of length at most n.
SeqsUpTo(S, n) == UNION {[1..k -> S] : k \in 0..n}

Tags == {"div", "input"}
TextNodes == {text("A"), text("B")}

\* Property maps; no map holds two keys that resolve to the same event.
PropertyMaps ==
    {<<>>, [class |-> "x"], [class |-> "y"], [checked |-> JsTrue],
     [onClick |-> "f"], [onClick |-> "g"], [onclick |-> "f", class |-> "x"],
     [onClick |-> "f2"]}

\* Elements whose children are text nodes.
FlatElements ==
    {h(t, p, c) : t \in Tags, p \in PropertyMaps,
                  c \in SeqsUpTo(TextNodes, MaxChildren)}

\* Elements whose children are elements or text nodes.
InnerNodes ==
    {text("A"), h("p", [class |-> "x"], <<>>),
     h("p", [onClick |-> "f"], <<text("A")>>)}
NestedElements == {h("div", <<>>, c) : c \in SeqsUpTo(InnerNodes, MaxChildren)}

Trees == TextNodes \cup FlatElements \cup NestedElements

InitPatch ==
    /\ va \in Trees
    /\ vb \in Trees
    /\ el = Container
    /\ phase = "fresh"
    /\ detached = <<>> /\ steps = 0 /\ runs = NoRuns
    /\ pc = "off" /\ state = 0 /\ nodes = <<>> /\ queue = <<>>
    /\ root = Container /\ scheduled = 0 /\ nextId = 0 /\ processed = <<>>
    /\ last = Quiet("none")
    /\ olds = <<>> /\ news = <<>> /\ patches = <<>> /\ apps = <<>>
    /\ names = <<>> /\ classified = <<>>

\* el.appendChild(create(a))
Materialize ==
    /\ phase = "fresh"
    /\ el' = [el EXCEPT !.childNodes = <<create(va)>>]
    /\ phase' = "created"
    /\ UNCHANGED <<va, vb, detached, steps, runs>>
    /\ UNCHANGED diffVars
    /\ UNCHANGED runtimeVars

\* apply(el, diffList([a], [b]))
Patch ==
    /\ phase = "created"
    /\ el' = apply(el, diffList(<<va>>, <<vb>>))
    /\ detached' = Detached(el, diffList(<<va>>, <<vb>>))
    /\ steps' = steps + 1
    /\ phase' = "patched"
    /\ UNCHANGED <<va, vb, runs>>
    /\ UNCHANGED diffVars
    /\ UNCHANGED runtimeVars

NextPatch == Materialize \/ Patch

SpecPatch == InitPatch /\ [][NextPatch]_vars

\* C1: diff-then-patch round trip.  Once the live tree materialized from a
\* has been patched with the diff of a against b, it is identical (tags,
\* attributes, directly assigned properties, registered listeners and their
\* handlers, text, child count and order) to the live tree materialized
\* from b.
C1_RoundTrip ==
    phase = "patched" => AsIsAll(el.childNodes) = <<AsIs(create(vb))>>

----------------------------------------------------------------------------
(* The Differ on its own: two lists of children are diffed.                *)

MaxList == 3

\* The children of the lists: text nodes and elements, two of them with
\* the same tag.
ChildNodes ==
    {text("A"), text("B"), text("C"),
     h("p", [class |-> "x"], <<text("A")>>), h("p", [class |-> "y"], <<>>)}

Noop == [noop |-> TRUE]

\* Either two lists of children, the new one possibly the old one with one
\* child appended, or two single trees.
InitDiff ==
    /\ \/ /\ olds \in SeqsUpTo(ChildNodes, MaxList)
          /\ news \in SeqsUpTo(ChildNodes, MaxList)
                       \cup {Append(olds, n) : n \in ChildNodes}
       \/ \E t1 \in Trees, t2 \in Trees : olds = <<t1>> /\ news = <<t2>>
    /\ patches = <<>>
    /\ apps = <<>>
    /\ names = <<>> /\ classified = <<>>
    /\ phase = "lists"
    /\ va = text("A") /\ vb = text("A") /\ el = Container
    /\ detached = <<>> /\ steps = 0 /\ runs = NoRuns
    /\ pc = "off" /\ state = 0 /\ nodes = <<>> /\ queue = <<>>
    /\ root = Container /\ scheduled = 0 /\ nextId = 0 /\ processed = <<>>
    /\ last = Quiet("none")

\* diffList(nodes, newNodes), as the library computes it
Diff ==
    /\ phase = "lists"
    /\ patches' = diffChildren(olds, news)
    /\ phase' = "diffed"
    /\ UNCHANGED <<olds, news, va, vb, el, detached, steps, runs, apps,
                   names, classified>>
    /\ UNCHANGED runtimeVars

NextDiff == Diff

SpecDiff == InitDiff /\ [][NextDiff]_vars

Common == 1..(IF Len(olds) <= Len(news) THEN Len(olds) ELSE Len(news))
Count(seq, n) == Cardinality({j \in DOMAIN seq : seq[j] = n})
Reordered(i) ==
    /\ Len(olds) = Len(news)
    /\ \A j \in DOMAIN olds : Count(olds, olds[j]) = Count(news, olds[j])
    /\ olds[i] # news[i]

RECURSIVE HasEmptyModify(_)
HasEmptyModify(d) ==
    /\ ActionOf(d) = "modify"
    /\ \/ /\ d.modify.remove = {}
          /\ DOMAIN d.modify.set = {}
          /\ \A i \in DOMAIN d.modify.children :
                ActionOf(d.modify.children[i]) = "noop"
       \/ \E i \in DOMAIN d.modify.children :
                HasEmptyModify(d.modify.children[i])

----------------------------------------------------------------------------
(* The Patcher on one live element: a button is created and then modified  *)
(* again and again, its event handlers being set, changed and removed.     *)

MaxSteps == 4

HandlerMaps ==
    {<<>>, [onClick |-> "f"], [onClick |-> "g"],
     [onClick |-> "f", class |-> "x"], [onInput |-> "k"],
     [onClick |-> "g", onInput |-> "k"]}

ListenNodes == {h("button", p, <<>>) : p \in HandlerMaps}

\* The handler a Node gives for an event type, undefined if it gives none.
HandlerOf(vnode, ev) ==
    LET ps == {p \in DOMAIN vnode.properties : eventName(p) = ev}
    IN  IF ps = {} THEN UNDEF ELSE vnode.properties[CHOOSE p \in ps : TRUE]

InitListen ==
    /\ va \in ListenNodes
    /\ vb = va
    /\ el = Container
    /\ phase = "fresh"
    /\ detached = <<>> /\ steps = 0 /\ runs = NoRuns
    /\ olds = <<>> /\ news = <<>> /\ patches = <<>> /\ apps = <<>>
    /\ names = <<>> /\ classified = <<>>
    /\ pc = "off" /\ state = 0 /\ nodes = <<>> /\ queue = <<>>
    /\ root = Container /\ scheduled = 0 /\ nextId = 0 /\ processed = <<>>
    /\ last = Quiet("none")

\* el.appendChild(create(a))
Mount ==
    /\ phase = "fresh"
    /\ el' = [el EXCEPT !.childNodes = <<create(va)>>]
    /\ runs' = [runs EXCEPT !.set =
                    [e \in EventTypes |->
                        IF HandlerOf(va, e) # UNDEF THEN 1 ELSE 0]]
    /\ phase' = "live"
    /\ UNCHANGED <<va, vb, detached, steps>>
    /\ UNCHANGED diffVars
    /\ UNCHANGED runtimeVars

\* apply(el, diffList([a], [b])), b becoming the baseline
Change(b) ==
    /\ phase = "live"
    /\ steps < MaxSteps
    /\ el' = apply(el, diffList(<<va>>, <<b>>))
    /\ detached' = Detached(el, diffList(<<va>>, <<b>>))
    /\ va' = b
    /\ vb' = va
    /\ steps' = steps + 1
    /\ runs' =
          [set |-> [e \in EventTypes |->
                      IF HandlerOf(va, e) = UNDEF /\ HandlerOf(b, e) # UNDEF
                      THEN runs.set[e] + 1 ELSE runs.set[e]],
           changed |-> [e \in EventTypes |->
                      IF /\ HandlerOf(va, e) # UNDEF
                         /\ HandlerOf(b, e) # UNDEF
                         /\ HandlerOf(va, e) # HandlerOf(b, e)
                      THEN runs.changed[e] + 1 ELSE runs.changed[e]]]
    /\ UNCHANGED phase
    /\ UNCHANGED diffVars
    /\ UNCHANGED runtimeVars

NextListen == Mount \/ \E b \in ListenNodes : Change(b)

SpecListen == InitListen /\ [][NextListen]_vars

\* C14: listener single-registration.  On a live element, addEventListener
\* has been called once for each time a handler was set where there was
\* none, however many times the handler was changed since (a change only
\* swaps the entry of the side-table); the element is registered for an
\* event type exactly while the side-table holds a handler for it, so at
\* most once, and not at all after the handler is removed.
C14_SingleRegistration ==
    phase = "live" =>
        \A ev \in EventTypes :
            LET e == el.childNodes[1]
            IN  /\ e.addEventListenerCalls[ev] = runs.set[ev]
                /\ e.ui.listeners[ev] = HandlerOf(va, ev)
                /\ (ev \in e.registered) <=> (HandlerOf(va, ev) # UNDEF)

\* The click handler was set once, changed twice and then removed: one
\* addEventListener call was made for click and nothing is registered.
C14_Witness ==
    /\ phase = "live"
    /\ steps = 3
    /\ runs.set[click] = 1
    /\ runs.changed[click] = 2
    /\ HandlerOf(va, click) = UNDEF
    /\ el.childNodes[1].addEventListenerCalls[click] = 1
    /\ click \notin el.childNodes[1].registered

\* The live nodes below a live node, itself included.
RECURSIVE Subtree(_)
Subtree(node) ==
    IF node.nodeType = "text" THEN {node}
    ELSE {node} \cup UNION {Subtree(node.childNodes[i]) :
                               i \in DOMAIN node.childNodes}

\* C15: no listener leaks on destruction.  Once a remove or a replace patch
\* has taken a live element out of the tree, the dispatcher is registered
\* for no event type on it nor on any of its descendants.
C15_NoLeak ==
    phase = "patched" =>
        \A i \in DOMAIN detached :
            \A node \in Subtree(detached[i]) :
                node.nodeType = "element" => node.registered = {}

----------------------------------------------------------------------------
(* Two applications started by init on different roots of one page.  Each  *)
(* call of init has its own state, nodes and queue; every live element     *)
(* records in _ui the enqueue of the application that created it, and the  *)
(* dispatcher enqueues through that record.                                *)

MaxShared == 3

AppIds == {"A", "B"}

\* The two applications share update and view and start from different
\* states.
InitialStateOf(a) == IF a = "A" THEN InitialState ELSE InitialState + 1

\* create(enqueue, vnode), apply(el, enqueue, childrenDiff) and
\* modify(el, enqueue, diff): every element they create carries the enqueue
\* they were handed; the elements that are there already keep theirs.
RECURSIVE WithEnqueue(_, _)
WithEnqueue(enq, node) ==
    IF node.nodeType = "text" THEN node
    ELSE [node EXCEPT
            !.ui = [listeners |-> node.ui.listeners,
                    enqueue |-> IF "enqueue" \in DOMAIN node.ui
                                THEN node.ui.enqueue ELSE enq],
            !.childNodes = [i \in DOMAIN node.childNodes |->
                               WithEnqueue(enq, node.childNodes[i])]]

\* The closure of an application as a handler starts to run in it, and as
\* the handler leaves it; the patcher was handed the application's enqueue.
Entered(a, op) == [apps[a] EXCEPT !.last = Quiet(op), !.threw = FALSE]
Left(c) ==
    [c EXCEPT !.last.threw = c.threw,
              !.root.childNodes = [i \in DOMAIN c.root.childNodes |->
                                      WithEnqueue(c.id, c.root.childNodes[i])]]

\* A variant of the dispatcher that enqueues through one enqueue kept for
\* the whole page instead of the one the element records.
listenerViaPage(all, a, i, type) ==
    LET target == all[a].root.childNodes[i]
        handler == target.ui.listeners[type]
        owner == "A"
        msg == HandlerResult(handler)
    IN  IF handler = UNDEF \/ msg = UNDEF THEN all
        ELSE [all EXCEPT ![owner] =
                 Left(enqueue([all[owner] EXCEPT !.last = Quiet("event"),
                                                 !.threw = FALSE], msg))]

\* The shared dispatcher on a page with several applications: the event's
\* currentTarget is the i-th child of the root of application a, and the
\* message goes to el._ui.enqueue.
listenerVia(all, a, i, type) ==
    LET target == all[a].root.childNodes[i]
        handler == target.ui.listeners[type]
        owner == target.ui.enqueue
        msg == HandlerResult(handler)
    IN  IF handler = UNDEF \/ msg = UNDEF THEN all
        ELSE [all EXCEPT ![owner] =
                 Left(enqueue([all[owner] EXCEPT !.last = Quiet("event"),
                                                 !.threw = FALSE], msg))]

InitTwo ==
    /\ apps = [a \in AppIds |->
                 [id |-> a, pc |-> "start", state |-> InitialStateOf(a),
                  nodes |-> <<>>, queue |-> <<>>, root |-> Container,
                  scheduled |-> 0, nextId |-> 0, processed |-> <<>>,
                  last |-> Quiet("none"), threw |-> FALSE]]
    /\ last = [op |-> "none", app |-> "none"]
    /\ pc = "off" /\ state = 0 /\ nodes = <<>> /\ queue = <<>>
    /\ root = Container /\ scheduled = 0 /\ nextId = 0 /\ processed = <<>>
    /\ va = text("A") /\ vb = text("A") /\ el = Container /\ phase = "off"
    /\ detached = <<>> /\ steps = 0 /\ runs = NoRuns
    /\ olds = <<>> /\ news = <<>> /\ patches = <<>>
    /\ names = <<>> /\ classified = <<>>

Enqueued == apps["A"].nextId + apps["B"].nextId

OnlyAppsChange ==
    UNCHANGED <<pc, state, nodes, queue, root, scheduled, nextId, processed,
                va, vb, el, phase, detached, steps, runs, olds, news, patches,
                names, classified>>

\* init(root, initialState, update, view) for application a
StartTwo(a) ==
    /\ apps[a].pc = "start"
    /\ LET c == init(Entered(a, "init"))
       IN  apps' = [apps EXCEPT ![a] =
                      [Left(c) EXCEPT !.pc = IF c.threw THEN "crashed"
                                             ELSE "running"]]
    /\ last' = [op |-> "init", app |-> a]
    /\ OnlyAppsChange

\* the enqueue that init returned for application a
EnqueueTwo(a, msg) ==
    /\ apps[a].pc # "start"
    /\ Enqueued < MaxShared
    /\ apps' = [apps EXCEPT ![a] = Left(enqueue(Entered(a, "enqueue"), msg))]
    /\ last' = [op |-> "enqueue", app |-> a]
    /\ OnlyAppsChange

\* an animation-frame callback of application a
TickTwo(a) ==
    /\ apps[a].pc # "start"
    /\ apps[a].scheduled > 0
    /\ LET c == updateState([Entered(a, "tick") EXCEPT !.scheduled = @ - 1])
       IN  apps' = [apps EXCEPT ![a] =
                      [Left(c) EXCEPT !.pc = IF c.threw THEN "crashed"
                                             ELSE "running"]]
    /\ last' = [op |-> "tick", app |-> a]
    /\ OnlyAppsChange

\* an event on the i-th child of the root of application a
DispatchTwo(a, i, type) ==
    /\ apps[a].pc # "start"
    /\ Enqueued < MaxShared
    /\ i \in DOMAIN apps[a].root.childNodes
    /\ apps[a].root.childNodes[i].nodeType = "element"
    /\ type \in apps[a].root.childNodes[i].registered
    /\ apps' = listenerVia(apps, a, i, type)
    /\ last' = [op |-> "event", app |-> a]
    /\ OnlyAppsChange

NextTwo ==
    \E a \in AppIds :
        \/ StartTwo(a)
        \/ \E msg \in Msgs : EnqueueTwo(a, msg)
        \/ TickTwo(a)
        \/ \E i \in 1..2, type \in EventTypes : DispatchTwo(a, i, type)

SpecTwo == InitTwo /\ [][NextTwo]_vars

\* The enqueue recorded by the live elements below the root of an
\* application.
Recorded(app) ==
    {node.ui.enqueue :
        node \in {n \in UNION {Subtree(app.root.childNodes[i]) :
                                  i \in DOMAIN app.root.childNodes} :
                     n.nodeType = "element"}}

\* C19: per-application isolation.  A call of init, of enqueue, a tick or an
\* event of one application leaves the queue, state, baseline and live tree
\* of the other as they were, whatever the interleaving; every live element
\* of an application records that application's enqueue, and the message an
\* event handler returns is appended to the queue of the application whose
\* element received the event.
C19_Isolation ==
    [][\A a \in AppIds :
          /\ Recorded(apps'[a]) \subseteq {a}
          /\ last'.app = a =>
                /\ \A b \in AppIds \ {a} : apps'[b] = apps[b]
                /\ last'.op \in {"enqueue", "event"} =>
                      /\ apps'[a].state = apps[a].state
                      /\ apps'[a].root = apps[a].root
                      /\ \/ apps'[a].queue = apps[a].queue
                         \/ /\ Len(apps'[a].queue) = Len(apps[a].queue) + 1
                            /\ SubSeq(apps'[a].queue, 1, Len(apps[a].queue))
                                  = apps[a].queue]_vars

\* Application B received an event whose message waits in its queue, while
\* application A has handled a message of its own and has nothing pending.
C19_Witness ==
    /\ last.op = "event"
    /\ last.app = "B"
    /\ Len(apps["B"].queue) = 1
    /\ apps["B"].processed # <<>>
    /\ apps["A"].processed # <<>>
    /\ apps["A"].queue = <<>>


\* C21: variant or tag change is always a full replace.  An element against
\* a text node, a text node against an element, and two elements of
\* different tags all give a replace by the new node, never a modify or a
\* noop.
C21_VariantChangeReplaces ==
    phase = "diffed" =>
        \A i \in Common :
            (\/ TextOf(olds[i]) # UNDEF /\ TagOf(news[i]) # UNDEF
             \/ TagOf(olds[i]) # UNDEF /\ TextOf(news[i]) # UNDEF
             \/ /\ TagOf(olds[i]) # UNDEF
                /\ TagOf(news[i]) # UNDEF
                /\ TagOf(olds[i]) # TagOf(news[i]))
                => patches[i] = [replace |-> news[i]]

\* A div with a handler and a child was diffed against an input.
C21_Witness ==
    /\ phase = "diffed"
    /\ Len(olds) = 1 /\ Len(news) = 1
    /\ TagOf(olds[1]) = "div"
    /\ TagOf(news[1]) = "input"
    /\ olds[1].properties = [onClick |-> "f"]
    /\ olds[1].children # <<>>
    /\ patches = <<[replace |-> news[1]]>>


RemoveOf(d) == IF ActionOf(d) = "modify" THEN d.modify.remove ELSE {}
SetOf(d) == IF ActionOf(d) = "modify" THEN d.modify.set ELSE <<>>

SameTag(i) == TagOf(olds[i]) # UNDEF /\ TagOf(olds[i]) = TagOf(news[i])

C24_Positional ==
    phase = "diffed" =>
        /\ Len(patches) = Max2(Len(olds), Len(news))
        /\ \A i \in DOMAIN patches :
              IF i > Len(olds) THEN patches[i] = [create |-> news[i]]
              ELSE IF i > Len(news) THEN patches[i] = [remove |-> TRUE]
              ELSE patches[i] = diffNode(olds[i], news[i])

\* A list of three children was diffed against a list of one: a modify of
\* the first child and two removes.
C24_Witness ==
    /\ phase = "diffed"
    /\ Len(olds) = 3
    /\ Len(news) = 1
    /\ ActionOf(patches[1]) = "modify"
    /\ patches[2] = [remove |-> TRUE]
    /\ patches[3] = [remove |-> TRUE]


\* C25: removing a plain property clears it on the live node.  After an
\* element has been modified, no non-event name of the patch's remove list
\* (names of the direct-assignment list included) is still carried by the
\* live element, as an attribute or as a directly assigned property.
C25_RemovedCleared ==
    (phase = "patched" /\ TextOf(va) = UNDEF /\ TextOf(vb) = UNDEF
                       /\ va.tag = vb.tag) =>
        \A prop \in diffOne(va, vb).modify.remove :
            eventName(prop) = NULL =>
                /\ prop \notin DOMAIN el.childNodes[1].attributes
                /\ prop \notin DOMAIN el.childNodes[1].fields


\* The live element carries the property by the path of its name: a name
\* of the direct-assignment list as a directly assigned property and not as
\* an attribute, every other name as an attribute and not as a property.
SetByItsPath(e, prop, value) ==
    IF prop \in props
    THEN /\ prop \in DOMAIN e.fields
         /\ e.fields[prop] = value
         /\ prop \notin DOMAIN e.attributes
    ELSE /\ prop \in DOMAIN e.attributes
         /\ e.attributes[prop] = JsString(value)
         /\ prop \notin DOMAIN e.fields

\* C26: property-vs-attribute dispatch on set.  Every non-event property of
\* a created element, and every non-event property a modify sets, is
\* carried by the path of its name, and on every live element the names
\* assigned directly are names of the list and the attribute names are not.
C26_SetDispatch ==
    /\ (phase = "created" /\ TextOf(va) = UNDEF) =>
            \A prop \in DOMAIN va.properties :
                eventName(prop) = NULL =>
                    SetByItsPath(el.childNodes[1], prop, va.properties[prop])
    /\ (phase = "patched" /\ TextOf(va) = UNDEF /\ TextOf(vb) = UNDEF
                          /\ va.tag = vb.tag) =>
            \A prop \in DOMAIN diffOne(va, vb).modify.set :
                eventName(prop) = NULL =>
                    SetByItsPath(el.childNodes[1], prop, vb.properties[prop])
    /\ \A i \in DOMAIN el.childNodes :
            el.childNodes[i].nodeType = "element" =>
                /\ DOMAIN el.childNodes[i].fields \subseteq props
                /\ DOMAIN el.childNodes[i].attributes \cap props = {}

\* An element created with checked was modified to have a class: checked
\* had been assigned directly by create, class was set as an attribute by
\* modify.
C26_Witness ==
    /\ phase = "patched"
    /\ va = h("input", [checked |-> JsTrue], <<>>)
    /\ vb = h("input", [onclick |-> "f", class |-> "x"], <<>>)
    /\ el.childNodes[1].attributes = [class |-> "x"]


----------------------------------------------------------------------------
(* Property names on their own: the names of an element's properties are   *)
(* visited one by one, as the loops of create and modify visit them, and   *)
(* each one is sent to a listener or to a plain property.                  *)

MaxNames == 2

PropertyNames ==
    {"onClick", "onclick", "onInput", "onMouseOver", "on", "once", "On",
     "ONCLICK", "neon", "o", "", "class", "checked", "value", "id"}

\* The test "event !== null" of the loops: the path a property takes, and
\* the event type it is registered for when it is a listener.
PathOf(prop) ==
    LET event == eventName(prop)
    IN  IF event # NULL
        THEN [path |-> "listener", event |-> event]
        ELSE [path |-> "property", event |-> NULL]

InitNames ==
    /\ names \in SeqsUpTo(PropertyNames, MaxNames)
    /\ classified = <<>>
    /\ phase = "names"
    /\ va = text("A") /\ vb = text("A") /\ el = Container
    /\ detached = <<>> /\ steps = 0 /\ runs = NoRuns
    /\ pc = "off" /\ state = 0 /\ nodes = <<>> /\ queue = <<>>
    /\ root = Container /\ scheduled = 0 /\ nextId = 0 /\ processed = <<>>
    /\ last = Quiet("none")
    /\ olds = <<>> /\ news = <<>> /\ patches = <<>> /\ apps = <<>>

\* One iteration of "for (const prop in properties)".
Classify ==
    /\ phase = "names"
    /\ Len(classified) < Len(names)
    /\ classified' = Append(classified, PathOf(names[Len(classified) + 1]))
    /\ UNCHANGED <<names, phase, va, vb, el, detached, steps, runs,
                   olds, news, patches, apps>>
    /\ UNCHANGED runtimeVars

NextNames == Classify

SpecNames == InitNames /\ [][NextNames]_vars

UpperCase == {"C", "I", "K", "L", "M", "N", "O"}

mouseover == <<"m", "o", "u", "s", "e", "o", "v", "e", "r">>

\* C27: property classification is total and deterministic.  Every name
\* visited took exactly one of the two paths; it took the listener path if
\* and only if its first two characters are "on", and then its event is
\* the rest of the name with every upper-case character replaced and every
\* other character kept (onMouseOver gives mouseover); two visits of one
\* name took the same path to the same event.
C27_Classification ==
    \A i \in DOMAIN classified :
        LET cs == Chars(names[i])
            c == classified[i]
        IN  /\ c.path \in {"listener", "property"}
            /\ c.path = "listener" <=>
                    (Len(cs) >= 2 /\ cs[1] = "o" /\ cs[2] = "n")
            /\ c.path = "property" => c.event = NULL
            /\ c.path = "listener" =>
                    /\ c.event # NULL
                    /\ Len(c.event) = Len(cs) - 2
                    /\ \A j \in DOMAIN c.event :
                          /\ c.event[j] \notin UpperCase
                          /\ cs[j + 2] \notin UpperCase => c.event[j] = cs[j + 2]
            /\ names[i] = "onMouseOver" => c.event = mouseover
            /\ \A j \in DOMAIN classified :
                    names[j] = names[i] => classified[j] = c

\* onMouseOver and a name without the prefix were both visited.
C27_Witness ==
    /\ Len(classified) = 2
    /\ names = <<"onMouseOver", "neon">>
    /\ classified[1] = [path |-> "listener", event |-> mouseover]
    /\ classified[2].path = "property"


\* C28: ordering inside modify.  Removals come before sets, so once an
\* element has been modified every handler of the patch's set map is in the
\* side-table under its event type with the platform listener registered,
\* also when the patch removes another key that resolves to the same event
\* (onClick removed, onclick set); the children have been patched as well.
C28_RemoveThenSet ==
    (phase = "patched" /\ TextOf(va) = UNDEF /\ TextOf(vb) = UNDEF
                       /\ va.tag = vb.tag) =>
        LET diff == diffOne(va, vb).modify
            live == el.childNodes[1]
        IN  /\ \A prop \in DOMAIN diff.set :
                  eventName(prop) # NULL =>
                      /\ live.ui.listeners[eventName(prop)] = diff.set[prop]
                      /\ eventName(prop) \in live.registered
            /\ AsIsAll(live.childNodes) =
                  AsIsAll([i \in 1..Len(vb.children) |-> create(vb.children[i])])

\* The handler under onClick was removed and a handler under onclick set,
\* in one patch.
C28_Witness ==
    /\ phase = "patched"
    /\ va = h("div", [onClick |-> "g"], <<text("A")>>)
    /\ vb = h("div", [onclick |-> "f", class |-> "x"], <<text("B")>>)
    /\ diffOne(va, vb).modify.remove = {"onClick"}
    /\ el.childNodes[1].ui.listeners[click] = "f"
    /\ click \in el.childNodes[1].registered


\* C29: dispatch uses the current handler.  Whenever an event of some type
\* is dispatched to a live element, the handler invoked is the one the
\* Node tree drawn last gives that element for that type: after a modify
\* has changed the handler from f to g, it is g and not f.
C29_CurrentHandler ==
    [][\A i \in 1..2, type \in EventTypes :
          Dispatch(i, type) => last'.handler = HandlerOf(nodes[i], type)]_vars

\* A click was dispatched to the button after its handler f was changed to
\* g by the redraw for state 1, and g was invoked.
C29_Witness ==
    /\ last.op = "event"
    /\ last.handler = "g"
    /\ state = 1
    /\ HandlerOf(view(InitialState)[1], click) = "f"
    /\ root.childNodes[1].addEventListenerCalls[click] = 1


----------------------------------------------------------------------------
(* The identity of live nodes: the live nodes made of a list of children   *)
(* are given names, a list of patches is computed (by the differ of the    *)
(* source or by the one with the noop optimisation) and applied.  A node   *)
(* that apply creates has no name.                                         *)

MaxSiblings == 2

ClickP == h("p", [onClick |-> "f"], <<text("B")>>)

IdentityNodes ==
    {text("A"), text("B"), ClickP,
     h("div", [class |-> "x"], <<text("A"), ClickP>>),
     h("div", [class |-> "x"], <<text("B"), ClickP>>),
     h("div", [class |-> "y"], <<text("A")>>)}

\* The live node with a name on it, on its side-table and, by their
\* position under it, on its descendants.
RECURSIVE Named(_, _)
Named(node, path) ==
    IF node.nodeType = "text" THEN Put(node, "identity", path)
    ELSE [Put(node, "identity", path) EXCEPT
            !.ui = Put(@, "identity", path),
            !.childNodes = [i \in DOMAIN node.childNodes |->
                               Named(node.childNodes[i], Append(path, i))]]

Unnamed == <<0>>
IdentityOf(obj) == IF "identity" \in DOMAIN obj THEN obj.identity ELSE Unnamed

\* The node, its side-table and its descendants were all created after the
\* names were given.
RECURSIVE AllNew(_)
AllNew(node) ==
    /\ IdentityOf(node) = Unnamed
    /\ node.nodeType = "element" =>
          /\ IdentityOf(node.ui) = Unnamed
          /\ \A i \in DOMAIN node.childNodes : AllNew(node.childNodes[i])

NamedChildren(ns) == [i \in 1..Len(ns) |-> Named(create(ns[i]), <<i>>)]

InitIdentity ==
    /\ olds \in SeqsUpTo(IdentityNodes, MaxSiblings)
    /\ news \in SeqsUpTo(IdentityNodes, MaxSiblings)
    /\ patches = <<>>
    /\ el = Container
    /\ phase = "fresh"
    /\ va = text("A") /\ vb = text("A")
    /\ detached = <<>> /\ steps = 0 /\ runs = NoRuns
    /\ apps = <<>> /\ names = <<>> /\ classified = <<>>
    /\ pc = "off" /\ state = 0 /\ nodes = <<>> /\ queue = <<>>
    /\ root = Container /\ scheduled = 0 /\ nextId = 0 /\ processed = <<>>
    /\ last = Quiet("none")

IdentityFrame ==
    /\ UNCHANGED <<olds, news, va, vb, detached, steps, runs, apps, names,
                   classified>>
    /\ UNCHANGED runtimeVars

\* el.appendChild(create(n)) for every old child n
MaterializeNamed ==
    /\ phase = "fresh"
    /\ el' = [el EXCEPT !.childNodes = NamedChildren(olds)]
    /\ phase' = "named"
    /\ UNCHANGED patches
    /\ IdentityFrame

\* the patches for the children, with or without the noop optimisation
Plan(optimised) ==
    /\ phase = "named"
    /\ patches' = IF optimised THEN diffChildren(olds, news)
                                ELSE diffList(olds, news)
    /\ phase' = "planned"
    /\ UNCHANGED el
    /\ IdentityFrame

\* apply(el, patches)
ApplyPlanned ==
    /\ phase = "planned"
    /\ el' = apply(el, patches)
    /\ phase' = "applied"
    /\ UNCHANGED patches
    /\ IdentityFrame

NextIdentity ==
    \/ MaterializeNamed
    \/ \E optimised \in BOOLEAN : Plan(optimised)
    \/ ApplyPlanned

SpecIdentity == InitIdentity /\ [][NextIdentity]_vars

\* The indices of from..to that are in S, in order.
RECURSIVE Indices(_, _, _)
Indices(from, to, S) ==
    IF from > to THEN <<>>
    ELSE (IF from \in S THEN <<from>> ELSE <<>>) \o Indices(from + 1, to, S)

\* after is what apply(before, childrenDiff) left of before: the children
\* under a remove are gone; the child under a noop is there as it was, with
\* its whole subtree; the child under a modify is the same node with the
\* same side-table, and so on below it; the child under a replace gave its
\* place to a node created since, and the nodes of the create patches, all
\* created since, follow.
RECURSIVE KeepsIdentity(_, _, _)
KeepsIdentity(before, after, childrenDiff) ==
    LET n == Len(before.childNodes)
        at(i) == IF i <= Len(childrenDiff) THEN ActionOf(childrenDiff[i])
                 ELSE "noop"
        stays == Indices(1, n, {i \in 1..n : at(i) # "remove"})
        creates == Indices(1, Len(childrenDiff),
                           {i \in 1..Len(childrenDiff) : at(i) = "create"})
    IN  /\ Len(after.childNodes) = Len(stays) + Len(creates)
        /\ \A k \in 1..Len(stays) :
              LET b == before.childNodes[stays[k]]
                  a == after.childNodes[k]
              IN  CASE at(stays[k]) = "noop" -> a = b
                    [] at(stays[k]) = "modify" ->
                          /\ IdentityOf(a) = IdentityOf(b)
                          /\ a.nodeType = "element"
                          /\ IdentityOf(a.ui) = IdentityOf(b.ui)
                          /\ KeepsIdentity(b, a,
                                  childrenDiff[stays[k]].modify.children)
                    [] OTHER -> AllNew(a)
        /\ \A k \in (Len(stays) + 1)..Len(after.childNodes) :
              AllNew(after.childNodes[k])

\* C30: live node identity.  Once the patches have been applied, the only
\* live nodes created since the names were given stand where a create or a
\* replace patch acted; every position under a modify or a noop holds the
\* node it held before, with the same side-table, and the whole subtree of
\* a noop position is as it was.
C30_Identity ==
    phase = "applied" =>
        KeepsIdentity([Container EXCEPT !.childNodes = NamedChildren(olds)],
                      el, patches)

\* The first child was modified (its text child replaced, its element
\* child under a noop) and the second child was under a noop.
C30_Witness ==
    /\ phase = "applied"
    /\ Len(patches) = 2
    /\ ActionOf(patches[1]) = "modify"
    /\ Len(patches[1].modify.children) = 2
    /\ ActionOf(patches[1].modify.children[1]) = "replace"
    /\ patches[1].modify.children[2] = Noop
    /\ patches[2] = Noop
    /\ olds[2] = ClickP
    /\ el.childNodes[1].identity = <<1>>
    /\ AllNew(el.childNodes[1].childNodes[1])
    /\ el.childNodes[1].childNodes[2].identity = <<1, 2>>
    /\ el.childNodes[2] = Named(create(ClickP), <<2>>)


----------------------------------------------------------------------------
(* Runtime Loop: baseline, message order, pending callbacks *)

\* The step just taken rendered: it went through view, diffList and apply.
Rendered(l) == \E k \in DOMAIN l.calls : l.calls[k].fn = "apply"

\* C31: baseline tracking.  After the initial draw of init and after every
\* tick that renders, the stored baseline is the Node sequence view returned
\* for the state drawn, and the patch applied is the diff of the baseline
\* stored before against it; while the loop runs the baseline is the view of
\* the stored state.
C31_BaselineTracking ==
    [][/\ (last'.op \in {"init", "tick"} /\ Rendered(last')) =>
              /\ nodes' = view(state')
              /\ last'.patch = diffList(nodes, view(state'))
       /\ pc' = "running" => nodes' = view(state')]_vars

\* The tick that took the state from 0 to 1 applied the diff of the view of
\* state 0 against the view of state 1.
C31_Witness ==
    /\ last.op = "tick"
    /\ Rendered(last)
    /\ state = 1
    /\ processed = <<1>>
    /\ nodes = view(1)
    /\ last.patch = diffList(view(0), view(1))
    /\ ActionOf(last.patch[1]) = "modify"


\* C32: no message is processed twice.  The messages passed to update so
\* far, over all ticks, are in strictly increasing enqueue order: none was
\* passed twice and none after a message enqueued later; what is still
\* queued was enqueued after everything passed to update.
C32_OnceInOrder ==
    /\ \A i, j \in DOMAIN processed : i < j => processed[i] < processed[j]
    /\ \A i \in DOMAIN processed, k \in DOMAIN queue :
          processed[i] < queue[k].id

\* Two ticks have passed four messages to update, the second tick two of
\* them, and another message is waiting.
C32_Witness ==
    /\ last.op = "tick"
    /\ ~last.threw
    /\ processed = <<1, 2, 3, 4>>
    /\ Ids(last.captured) = <<3, 4>>
    /\ Ids(queue) = <<5>>


\* C33: exactly one pending refresh callback.  From the return of init on,
\* between any two ticks, as long as update and view have not thrown, one
\* animation-frame callback is pending, however many times enqueue was
\* called.
C33_OnePending == pc = "running" => scheduled = 1

\* enqueue has been called as many times as the bound allows, after a tick
\* that handled messages, and one callback is pending.
C33_Witness ==
    /\ pc = "running"
    /\ last.op = "enqueue"
    /\ nextId >= MaxEnqueues
    /\ processed # <<>>
    /\ Len(queue) >= 2
    /\ scheduled = 1


----------------------------------------------------------------------------
(* Two elements of the same tag, whose property maps may hold a key with   *)
(* the value undefined: the live element of the old one is created, the    *)
(* two are diffed and the patch is applied.                                *)

UndefinedMaps ==
    {<<>>, [onClick |-> "f"], [onClick |-> UNDEF], [class |-> "x"],
     [class |-> UNDEF], [onClick |-> "g", class |-> UNDEF],
     [checked |-> JsTrue]}

PairNodes == {h("button", p, <<>>) : p \in UndefinedMaps}

InitPair ==
    /\ \E a \in PairNodes, b \in PairNodes : olds = <<a>> /\ news = <<b>>
    /\ patches = <<>>
    /\ el = Container
    /\ phase = "fresh"
    /\ va = text("A") /\ vb = text("A")
    /\ detached = <<>> /\ steps = 0 /\ runs = NoRuns
    /\ apps = <<>> /\ names = <<>> /\ classified = <<>>
    /\ pc = "off" /\ state = 0 /\ nodes = <<>> /\ queue = <<>>
    /\ root = Container /\ scheduled = 0 /\ nextId = 0 /\ processed = <<>>
    /\ last = Quiet("none")

\* el.appendChild(create(a))
MountPair ==
    /\ phase = "fresh"
    /\ el' = [el EXCEPT !.childNodes = CreateAll(olds)]
    /\ phase' = "mounted"
    /\ UNCHANGED patches
    /\ IdentityFrame

\* diffList([a], [b])
DiffPair ==
    /\ phase = "mounted"
    /\ patches' = diffList(olds, news)
    /\ phase' = "compared"
    /\ UNCHANGED el
    /\ IdentityFrame

\* apply(el, patches)
PatchPair ==
    /\ phase = "compared"
    /\ el' = apply(el, patches)
    /\ phase' = "modified"
    /\ UNCHANGED patches
    /\ IdentityFrame

NextPair == MountPair \/ DiffPair \/ PatchPair

SpecPair == InitPair /\ [][NextPair]_vars

\* C34: removedProps and setProps are disjoint.  No key of the patch of two
\* elements of the same tag is both in its remove list and in its set
\* mapping, also when a property map holds a key whose value is undefined.
C34_Disjoint ==
    phase \in {"compared", "modified"} =>
        RemoveOf(patches[1]) \cap DOMAIN SetOf(patches[1]) = {}


\* C35: registration/side-table agreement.  On every live element of the
\* application and for every event type, the dispatcher is registered for
\* the type if and only if the side-table of the element holds a handler
\* for it.
C35_Agreement ==
    \A i \in DOMAIN root.childNodes :
        root.childNodes[i].nodeType = "element" =>
            \A type \in EventTypes :
                type \in root.childNodes[i].registered
                    <=> root.childNodes[i].ui.listeners[type] # UNDEF


\* The indices at which a list of patches has the given action.
Where(childrenDiff, action) ==
    {i \in DOMAIN childrenDiff : ActionOf(childrenDiff[i]) = action}

Min2(x, y) == IF x <= y THEN x ELSE y

\* C36: create and remove are exclusive suffixes.  A list of patches never
\* holds both a create and a remove; its creates, or its removes, are the
\* indices after the length of the shorter list, up to the end; and once
\* the patches are applied the parent has as many live children as there
\* are new children.
C36_ExclusiveSuffixes ==
    phase \in {"planned", "applied"} =>
        LET shorter == Min2(Len(olds), Len(news))
            tail == (shorter + 1)..Len(patches)
        IN  /\ Where(patches, "create") = {} \/ Where(patches, "remove") = {}
            /\ Where(patches, "create") =
                  IF Len(news) > Len(olds) THEN tail ELSE {}
            /\ Where(patches, "remove") =
                  IF Len(olds) > Len(news) THEN tail ELSE {}
            /\ phase = "applied" => Len(el.childNodes) = Len(news)

\* Two old children and no new one: two removes, applied to the children
\* as they were before the first of them was taken out.
C36_Witness ==
    /\ phase = "applied"
    /\ Len(olds) = 2
    /\ news = <<>>
    /\ patches = <<[remove |-> TRUE], [remove |-> TRUE]>>
    /\ el.childNodes = <<>>


\* Every remove, replace or modify of childrenDiff has a live child of the
\* parent at its index; a modify has an element with a side-table there,
\* and the same holds below it for the patches of its children.
RECURSIVE FindsTargets(_, _)
FindsTargets(parent, childrenDiff) ==
    \A i \in DOMAIN childrenDiff :
        LET action == ActionOf(childrenDiff[i])
        IN  /\ action \in {"remove", "replace", "modify"} =>
                  i \in DOMAIN parent.childNodes
            /\ action = "modify" =>
                  /\ parent.childNodes[i].nodeType = "element"
                  /\ "ui" \in DOMAIN parent.childNodes[i]
                  /\ FindsTargets(parent.childNodes[i],
                                  childrenDiff[i].modify.children)

\* C37: patches always find their target.  Whenever init or a tick applies
\* a list of patches to the root, every remove, replace or modify in it, at
\* any depth, acts on a live child that exists at its index, and every
\* modify on a live element that has a side-table.
C37_TargetsExist ==
    [][(last'.op \in {"init", "tick"} /\ Rendered(last')) =>
          FindsTargets(root, last'.patch)]_vars

\* The tick that took the state from 2 to 3 modified the input and removed
\* the text node after it.
C37_Witness ==
    /\ last.op = "tick"
    /\ Rendered(last)
    /\ state = 3
    /\ Len(last.patch) = 2
    /\ ActionOf(last.patch[1]) = "modify"
    /\ last.patch[2] = [remove |-> TRUE]
    /\ Len(root.childNodes) = 1


\* The ids of the calls of fn a handler made, in order.
ArgsOf(l, fn) ==
    LET cs == SelectSeq(l.calls, LAMBDA x : x.fn = fn)
    IN  [i \in 1..Len(cs) |-> cs[i].arg]

\* C38: failure mid-drain.  When update throws on the k-th message of the
\* queue a tick drains, the stored state is the fold of update over the
\* first k-1 of them; none of the drained messages is in the queue any
\* more, and the k-th was the last one passed to update; the queue holds
\* the messages enqueued during the drain; baseline and live tree are as
\* they were before the tick.
C38_FailureMidDrain ==
    [][(last'.op = "tick" /\ last'.threw /\ ArgsOf(last', "view") = <<>>) =>
          LET k == Len(ArgsOf(last', "update"))
          IN  /\ k \in 1..Len(queue)
              /\ ArgsOf(last', "update") = SubSeq(Ids(queue), 1, k)
              /\ FoldUpdate(state, SubSeq(queue, 1, k - 1)) = <<state'>>
              /\ UpdateThrows(state', queue[k].msg)
              /\ processed' = processed \o SubSeq(Ids(queue), 1, k)
              /\ Ids(queue') = ArgsOf(last', "push")
              /\ Range(Ids(queue')) \cap Range(Ids(queue)) = {}
              /\ nodes' = nodes
              /\ root' = root]_vars

\* update threw on the third of three messages: the first had taken the
\* state from 0 to 1, the second had enqueued a message, which is queued.
C38_Witness ==
    /\ last.op = "tick"
    /\ last.threw
    /\ processed = <<1, 2, 3>>
    /\ Len(last.captured) = 3
    /\ state = 1
    /\ Ids(queue) = <<4>>
    /\ nodes = view(InitialState)
    /\ pc = "crashed"

====
